---------------------------- MODULE Spec2Model ----------------------------
(***************************************************************************)
(* A model of the Enigma command line program (src/src/main.cpp): the      *)
(* Rotor class, the EnigmaMachine class and the read/step/cipher loop of   *)
(* main.                                                                   *)
(*                                                                         *)
(* Characters are their ASCII codes ('A' = 65).  A Shuffle (a              *)
(* std::vector<uint32_t>) is a function over 0..size-1.  A Rotor is a      *)
(* record with the fields of the class.                                    *)
(***************************************************************************)
EXTENDS Integers, Sequences, FiniteSets, TLC

VARIABLES
    rotors_,     \* EnigmaMachine::rotors_ : sequence of Rotor records
    plugboard_,  \* EnigmaMachine::plugboard_
    etw_,        \* EnigmaMachine::etw_
    ukw_,        \* EnigmaMachine::ukw_
    op,          \* the member function called last ("init" after construction)
    arg,         \* the argument of the last cipher_one call
    ret,         \* the value the last cipher_one call returned
    idx,         \* the indices the last call used to subscript a vector
    crashed,     \* an out-of-range subscript ended the process
    pc,          \* main: the statement to execute next
    cin,         \* main: the characters std::cin has not delivered yet
    input,       \* the whole input stream (history)
    c,           \* main: the local variable c
    good,        \* main: std::cin.good()
    cout,        \* main: the characters main has printed (line 189)
    keydowns,    \* the number of keydown calls since construction (history)
    calls,       \* the arguments of the cipher_one calls so far (history)
    run          \* round-trip scenario: 1 = enciphering, 2 = deciphering

vars == <<rotors_, plugboard_, etw_, ukw_, op, arg, ret, idx, crashed,
          pc, cin, input, c, good, cout, keydowns, calls, run>>

machine == <<rotors_, plugboard_, etw_, ukw_>>
mainvars == <<pc, cin, input, c, good, cout, keydowns, calls, run>>

---------------------------------------------------------------------------
(* Static data, lines 12-24 and 68.                                        *)

\* constexpr static auto a_ = 'A'
a_ == 65

\* "ABCDEFGHIJKLMNOPQRSTUVWXYZ"
ALPHA ==
    <<65, 66, 67, 68, 69, 70, 71, 72, 73, 74, 75, 76, 77,
      78, 79, 80, 81, 82, 83, 84, 85, 86, 87, 88, 89, 90>>

\* rotors::etw_alpha = "ABCDEFGHIJKLMNOPQRSTUVWXYZ"
rotors_etw_alpha ==
    <<65, 66, 67, 68, 69, 70, 71, 72, 73, 74, 75, 76, 77,
      78, 79, 80, 81, 82, 83, 84, 85, 86, 87, 88, 89, 90>>

\* rotors::i = "EKMFLGDQVZNTOWYHXUSPAIBRCJ"
rotors_i ==
    <<69, 75, 77, 70, 76, 71, 68, 81, 86, 90, 78, 84, 79,
      87, 89, 72, 88, 85, 83, 80, 65, 73, 66, 82, 67, 74>>

\* rotors::ukw_b = "YRUHQSLDPXNGOKMIEBFZCWVJAT"
rotors_ukw_b ==
    <<89, 82, 85, 72, 81, 83, 76, 68, 80, 88, 78, 71, 79,
      75, 77, 73, 69, 66, 70, 90, 67, 87, 86, 74, 65, 84>>

\* The characters a well-formed input consists of: 'A'..'Z'.
ValidChars == {ALPHA[k] : k \in 1..Len(ALPHA)}

---------------------------------------------------------------------------
(* Machine arithmetic.                                                     *)

\* The width of Shuffle::size_type (std::size_t), the type of pos_ and len_.
WordBits == 64

RECURSIVE PowMod(_, _, _)
\* b^e modulo n, without ever forming b^e, by repeated squaring.
PowMod(b, e, n) ==
    IF e = 0
    THEN 1 % n
    ELSE IF e % 2 = 0
         THEN LET h == PowMod(b, e \div 2, n) IN (h * h) % n
         ELSE (b * PowMod(b, e - 1, n)) % n

\* ((x - y) mod 2^WordBits) % n for 0 <= x, y < 2^31: the unsigned
\* subtraction x - y of two size_type values followed by % n.  When y > x the
\* difference wraps to 2^WordBits - (y - x), whose residue modulo n is
\* computed from the residue of 2^WordBits.
USubMod(x, y, n) ==
    IF x >= y
    THEN (x - y) % n
    ELSE (PowMod(2, WordBits, n) + n - ((y - x) % n)) % n

\* v[i] for a vector v.  An out-of-range subscript is undefined behaviour:
\* the value given here is a placeholder, and the call that made the read
\* is given every outcome by the action that models it (see OutOfRange).
Read(v, i) == IF i \in DOMAIN v THEN v[i] ELSE 0

---------------------------------------------------------------------------
(* make_notches and class Rotor, lines 43-125.                             *)

make_notches(len, vals) ==
    [k \in 0..(len - 1) |-> IF k \in vals THEN 1 ELSE 0]

\* invert with the inversion left out: shuffle_bck_ is a copy of
\* shuffle_fwd_.
invert_copy(fwd, bck, i) == fwd

RECURSIVE invert(_, _, _)
\* The loop of lines 104-107: for (auto elem : shuffle_fwd_)
\* shuffle_bck_[elem] = i++, from element i on.
invert(fwd, bck, i) ==
    IF i \notin DOMAIN fwd
    THEN bck
    ELSE invert(fwd,
                IF fwd[i] \in DOMAIN bck THEN [bck EXCEPT ![fwd[i]] = i] ELSE bck,
                i + 1)

\* shuffle_fwd_ after the std::transform of lines 102-103.
transform(shuffle) ==
    [k \in 0..(Len(shuffle) - 1) |-> shuffle[k + 1] - a_]

\* Rotor::Rotor(shuffle, notches, initial_pos, ring_setting)
Rotor(shuffle, notches, initial_pos, ring_setting) ==
    LET fwd == transform(shuffle)
        bck == [k \in 0..(Len(shuffle) - 1) |-> 0]
    IN  [shuffle_fwd_ |-> fwd,
         shuffle_bck_ |-> invert(fwd, bck, 0),
         notches_     |-> notches,
         len_         |-> Len(shuffle),
         pos_         |-> initial_pos]

\* rotate_pos without the reduction % len_ (a position below 0 stands for
\* the wrapped word).
rotate_pos_unreduced(r, turnover) == r.pos_ - turnover

\* pos_ after pos_ = (pos_ - turnover) % len_
rotate_pos(r, turnover) == USubMod(r.pos_, turnover, r.len_)

\* Rotor::rotate: the rotor after the call and the value returned.
rotate(r, turnover) ==
    LET p == rotate_pos(r, turnover)
    IN  [rotor |-> [r EXCEPT !.pos_ = p],
         ret   |-> Read(r.notches_, p),
         at    |-> p]

\* The subscript connect_fwd and connect_bck compute: (character + pos_) % len_
contact(r, character) == (character + r.pos_) % r.len_

\* Rotor::connect_fwd
connect_fwd(r, character) == Read(r.shuffle_fwd_, contact(r, character))

\* A connect_bck that reads the forward table.
connect_bck_shuffle_fwd(r, character) ==
    Read(r.shuffle_fwd_, contact(r, character))

\* Rotor::connect_bck
connect_bck(r, character) == Read(r.shuffle_bck_, contact(r, character))

---------------------------------------------------------------------------
(* class EnigmaMachine, lines 127-180.                                     *)

\* The number of rotors the constructor puts on the stack (lines 144-146).
NumRotors == 3

\* The vector plugboard_(26u) as constructed, were std::iota left out.
iota_zero(len) == [k \in 0..(len - 1) |-> 0]

\* std::iota(plugboard_.begin(), plugboard_.end(), 0u) on a vector of 26
iota(len) == [k \in 0..(len - 1) |-> k]

\* One rotor of the stack: rotors_.emplace_back(rotors::i,
\* make_notches(26u, {'Z' - 'A'})), initial_pos and ring_setting defaulted.
stack_rotor == Rotor(rotors_i, make_notches(26, {90 - 65}), 0, 0)

\* EnigmaMachine with the reflector built from the wiring of rotor I.
EnigmaMachine_ukw_rotor_i ==
    [rotors_    |-> [k \in 1..NumRotors |-> stack_rotor],
     plugboard_ |-> iota(26),
     etw_       |-> Rotor(rotors_etw_alpha, make_notches(26, {}), 0, 0),
     ukw_       |-> Rotor(rotors_i, make_notches(26, {}), 0, 0)]

\* EnigmaMachine::EnigmaMachine()
EnigmaMachine ==
    [rotors_    |-> [k \in 1..NumRotors |-> stack_rotor],
     plugboard_ |-> iota(26),
     etw_       |-> Rotor(rotors_etw_alpha, make_notches(26, {}), 0, 0),
     ukw_       |-> Rotor(rotors_ukw_b, make_notches(26, {}), 0, 0)]

\* A subscript: the size of the vector and the index used on it.
Sub(v, i) == [size |-> Cardinality(DOMAIN v), at |-> i]

\* Whether one of the subscripts in s is outside its vector.
OutOfRange(s) == \E x \in s : x.at \notin 0..(x.size - 1)

\* The machine as the member functions see it (*this).
this ==
    [rotors_ |-> rotors_, plugboard_ |-> plugboard_, etw_ |-> etw_, ukw_ |-> ukw_]

RECURSIVE through_fwd(_, _, _)
\* scratch after the first k rotors of the loop of lines 155-158.
through_fwd(m, k, scratch) ==
    IF k = 0
    THEN scratch
    ELSE connect_fwd(m.rotors_[k], through_fwd(m, k - 1, scratch))

RECURSIVE through_bck(_, _, _)
\* scratch after the rotors Len(rotors_), ..., k of the reversed loop of
\* lines 162-165.
through_bck(m, k, scratch) ==
    IF k > Len(m.rotors_)
    THEN scratch
    ELSE connect_bck(m.rotors_[k], through_bck(m, k + 1, scratch))

\* The conversion of the uint32_t scratch + 'A' to the char returned.
to_char(n) == n % 256

\* EnigmaMachine::cipher_one on machine m: the character returned and the
\* subscripts used.  A c below 'A' makes c - 'A' negative; converted to
\* uint32_t that is 2^32 + (c - 'A'), out of the range of plugboard_ just as
\* the negative number is, so the negative number stands for it.
cipher_one(m, ch) ==
    LET s0 == ch - 65
        s1 == Read(m.plugboard_, s0)
        s2 == connect_fwd(m.etw_, s1)
        s3 == through_fwd(m, Len(m.rotors_), s2)
        s4 == connect_fwd(m.ukw_, s3)
        s5 == through_bck(m, 1, s4)
        s6 == connect_bck(m.etw_, s5)
        s7 == Read(m.plugboard_, s6)
    IN  [ret |-> to_char(s7 + 65),
         idx |-> {Sub(m.plugboard_, s0),
                  Sub(m.etw_.shuffle_fwd_, contact(m.etw_, s1))}
                 \cup {Sub(m.rotors_[k].shuffle_fwd_,
                           contact(m.rotors_[k], through_fwd(m, k - 1, s2)))
                       : k \in 1..Len(m.rotors_)}
                 \cup {Sub(m.ukw_.shuffle_fwd_, contact(m.ukw_, s3))}
                 \cup {Sub(m.rotors_[k].shuffle_bck_,
                           contact(m.rotors_[k], through_bck(m, k + 1, s4)))
                       : k \in 1..Len(m.rotors_)}
                 \cup {Sub(m.etw_.shuffle_bck_, contact(m.etw_, s5)),
                       Sub(m.plugboard_, s6)}]

\* The values a call m.cipher_one(ch) can return.  A subscript out of range
\* is undefined behaviour: the read yields whatever lies there, and the rest
\* of the signal path maps it to some letter (or the process ends, see
\* MainCipherCrash).
cipher_results(m, ch) ==
    IF OutOfRange(cipher_one(m, ch).idx)
    THEN ValidChars
    ELSE {cipher_one(m, ch).ret}

RECURSIVE keydown_loop_all_turn(_, _, _)
\* A keydown that hands every rotor the turnover of the first one instead of
\* what the rotor before it returned.
keydown_loop_all_turn(rs, k, rotated) ==
    IF k > Len(rs)
    THEN [rotors |-> rs, idx |-> {}]
    ELSE LET r    == rotate(rs[k], rotated)
             rest == keydown_loop_all_turn([rs EXCEPT ![k] = r.rotor],
                                           k + 1, rotated)
         IN  [rotors |-> rest.rotors,
              idx    |-> {Sub(rs[k].notches_, r.at)} \cup rest.idx]

RECURSIVE keydown_loop(_, _, _)
\* The loop of lines 176-178 from rotor k on: the rotors after it and the
\* subscripts used on notches_.  r is what rotor.rotate(rotated) gives,
\* computed once per pass of the loop.
keydown_loop(rs, k, rotated) ==
    IF k > Len(rs)
    THEN [rotors |-> rs, idx |-> {}]
    ELSE LET after(r) ==
                 LET rest == keydown_loop([rs EXCEPT ![k] = r.rotor],
                                          k + 1, r.ret)
                 IN  [rotors |-> rest.rotors,
                      idx    |-> {Sub(rs[k].notches_, r.at)} \cup rest.idx]
         IN  CHOOSE out \in {after(r) : r \in {rotate(rs[k], rotated)}} : TRUE

\* EnigmaMachine::keydown on machine m.
keydown(m) == keydown_loop(m.rotors_, 1, 1)

---------------------------------------------------------------------------
(* The machine driven through its public interface with well-formed        *)
(* characters.                                                             *)

Init ==
    /\ rotors_ = EnigmaMachine.rotors_
    /\ plugboard_ = EnigmaMachine.plugboard_
    /\ etw_ = EnigmaMachine.etw_
    /\ ukw_ = EnigmaMachine.ukw_
    /\ op = "init"
    /\ arg = 0
    /\ ret = 0
    /\ idx = {}
    /\ crashed = FALSE
    /\ pc = "api"
    /\ cin = <<>>
    /\ input = <<>>
    /\ c = 0
    /\ good = TRUE
    /\ cout = <<>>
    /\ keydowns = 0
    /\ calls = <<>>
    /\ run = 0

\* machine.keydown()
\* A keydown that also turns the entry wheel and the reflector.
KeyDown_fixed_wheels_turn ==
    /\ pc = "api"
    /\ rotors_' = keydown(this).rotors
    /\ etw_' = rotate(etw_, 1).rotor
    /\ ukw_' = rotate(ukw_, 1).rotor
    /\ idx' = keydown(this).idx
    /\ op' = "keydown"
    /\ UNCHANGED <<plugboard_, arg, ret, crashed>>
    /\ UNCHANGED mainvars

KeyDown ==
    /\ pc = "api"
    /\ rotors_' = keydown(this).rotors
    /\ idx' = keydown(this).idx
    /\ op' = "keydown"
    /\ UNCHANGED <<plugboard_, etw_, ukw_, arg, ret, crashed>>
    /\ UNCHANGED mainvars

\* A cipher_one that steps the rotors itself before ciphering.
CipherOne_stepping(ch) ==
    /\ pc = "api"
    /\ ret' \in cipher_results(this, ch)
    /\ arg' = ch
    /\ idx' = cipher_one(this, ch).idx
    /\ op' = "cipher_one"
    /\ rotors_' = keydown(this).rotors
    /\ UNCHANGED <<plugboard_, etw_, ukw_, crashed>>
    /\ UNCHANGED mainvars

\* machine.cipher_one(ch)
CipherOne(ch) ==
    /\ pc = "api"
    /\ ret' \in cipher_results(this, ch)
    /\ arg' = ch
    /\ idx' = cipher_one(this, ch).idx
    /\ op' = "cipher_one"
    /\ UNCHANGED <<machine, crashed>>
    /\ UNCHANGED mainvars

Next ==
    \/ KeyDown
    \/ \E ch \in ValidChars : CipherOne(ch)

Spec == Init /\ [][Next]_vars

---------------------------------------------------------------------------
(* main, lines 182-191, one action per statement.  std::cin >> c skips     *)
(* white space, so the input stream is the sequence of its other           *)
(* characters.  The lines cipher_one itself prints (157-166) are not part  *)
(* of the model; cout holds what line 189 prints.                          *)

\* The longest input stream.
MaxLen == 2

\* The characters an input stream is made of: 'A', 'B', and two characters
\* outside the alphabet, 'a' (above 'Z') and '1' (below 'A').
StreamChars == {65, 66, 97, 49}

\* The sequences over S of length at most n.
SeqsUpTo(S, n) == UNION {[1..k -> S] : k \in 0..n}

\* After EnigmaMachine machine (line 183) and the declaration char c (line
\* 185), which leaves c indeterminate.
InitMain ==
    /\ rotors_ = EnigmaMachine.rotors_
    /\ plugboard_ = EnigmaMachine.plugboard_
    /\ etw_ = EnigmaMachine.etw_
    /\ ukw_ = EnigmaMachine.ukw_
    /\ op = "init"
    /\ arg = 0
    /\ ret = 0
    /\ idx = {}
    /\ crashed = FALSE
    /\ pc = "start"
    /\ input \in SeqsUpTo(StreamChars, MaxLen)
    /\ cin = input
    /\ c \in StreamChars
    /\ good = TRUE
    /\ cout = <<>>
    /\ keydowns = 0
    /\ calls = <<>>
    /\ run = 0

\* line 184: machine.keydown()
MainStart ==
    /\ pc = "start"
    /\ rotors_' = keydown(this).rotors
    /\ idx' = keydown(this).idx
    /\ op' = "keydown"
    /\ keydowns' = keydowns + 1
    /\ pc' = "test"
    /\ UNCHANGED <<plugboard_, etw_, ukw_, arg, ret, crashed>>
    /\ UNCHANGED <<cin, input, c, good, cout, calls, run>>

\* line 186: while (std::cin.good())
MainTest ==
    /\ pc = "test"
    /\ pc' = IF good THEN "read" ELSE "done"
    /\ UNCHANGED <<machine, op, arg, ret, idx, crashed>>
    /\ UNCHANGED <<cin, input, c, good, cout, keydowns, calls, run>>

\* line 187: std::cin >> c.  At the end of the stream the extraction fails:
\* it sets eofbit and failbit and leaves c as it was.
MainRead ==
    /\ pc = "read"
    /\ IF cin # <<>>
       THEN /\ c' = Head(cin)
            /\ cin' = Tail(cin)
            /\ good' = good
       ELSE /\ c' = c
            /\ cin' = cin
            /\ good' = FALSE
    /\ pc' = "keydown"
    /\ UNCHANGED <<machine, op, arg, ret, idx, crashed>>
    /\ UNCHANGED <<input, cout, keydowns, calls, run>>

\* line 188: machine.keydown()
MainKeydown ==
    /\ pc = "keydown"
    /\ rotors_' = keydown(this).rotors
    /\ idx' = keydown(this).idx
    /\ op' = "keydown"
    /\ keydowns' = keydowns + 1
    /\ pc' = "cipher"
    /\ UNCHANGED <<plugboard_, etw_, ukw_, arg, ret, crashed>>
    /\ UNCHANGED <<cin, input, c, good, cout, calls, run>>

\* line 189: std::cout << machine.cipher_one(c) << "\n"
MainCipher ==
    /\ pc = "cipher"
    /\ ret' \in cipher_results(this, c)
    /\ arg' = c
    /\ idx' = cipher_one(this, c).idx
    /\ op' = "cipher_one"
    /\ calls' = Append(calls, c)
    /\ cout' = cout \o <<ret', 10>>
    /\ pc' = "test"
    /\ UNCHANGED <<machine, crashed>>
    /\ UNCHANGED <<cin, input, c, good, keydowns, run>>

\* line 189, when a subscript of cipher_one is out of range and the read
\* faults: the process ends inside the call.
MainCipherCrash ==
    /\ pc = "cipher"
    /\ OutOfRange(cipher_one(this, c).idx)
    /\ arg' = c
    /\ idx' = cipher_one(this, c).idx
    /\ op' = "cipher_one"
    /\ calls' = Append(calls, c)
    /\ crashed' = TRUE
    /\ pc' = "crashed"
    /\ UNCHANGED <<machine, ret>>
    /\ UNCHANGED <<cin, input, c, good, cout, keydowns, run>>

NextMain ==
    \/ MainStart
    \/ MainTest
    \/ MainRead
    \/ MainKeydown
    \/ MainCipher
    \/ MainCipherCrash

SpecMain == InitMain /\ [][NextMain]_vars

---------------------------------------------------------------------------
(* The round-trip scenario: a string is enciphered character by character  *)
(* on a freshly constructed machine (keydown, then cipher_one), and the    *)
(* ciphertext is enciphered the same way on a second freshly constructed   *)
(* machine.                                                                *)

InitRoundTrip ==
    /\ rotors_ = EnigmaMachine.rotors_
    /\ plugboard_ = EnigmaMachine.plugboard_
    /\ etw_ = EnigmaMachine.etw_
    /\ ukw_ = EnigmaMachine.ukw_
    /\ op = "init"
    /\ arg = 0
    /\ ret = 0
    /\ idx = {}
    /\ crashed = FALSE
    /\ pc = "roundtrip"
    /\ input \in SeqsUpTo(ValidChars, MaxLen)
    /\ cin = input
    /\ c = 0
    /\ good = TRUE
    /\ cout = <<>>
    /\ keydowns = 0
    /\ calls = <<>>
    /\ run = 1

\* One character: machine.keydown(), then machine.cipher_one(c); the
\* character returned is appended to the text produced.
RoundTripStep ==
    LET stepped == [this EXCEPT !.rotors_ = keydown(this).rotors]
    IN  /\ pc = "roundtrip"
        /\ cin # <<>>
        /\ rotors_' = stepped.rotors_
        /\ c' = Head(cin)
        /\ cin' = Tail(cin)
        /\ ret' \in cipher_results(stepped, Head(cin))
        /\ arg' = Head(cin)
        /\ idx' = keydown(this).idx \cup cipher_one(stepped, Head(cin)).idx
        /\ op' = "cipher_one"
        /\ cout' = Append(cout, ret')
        /\ keydowns' = keydowns + 1
        /\ calls' = Append(calls, Head(cin))
        /\ UNCHANGED <<plugboard_, etw_, ukw_, crashed, pc, input, good, run>>

\* The second machine is constructed and is given the text the first one
\* produced.
RoundTripAgain ==
    /\ pc = "roundtrip"
    /\ run = 1
    /\ cin = <<>>
    /\ rotors_' = EnigmaMachine.rotors_
    /\ plugboard_' = EnigmaMachine.plugboard_
    /\ etw_' = EnigmaMachine.etw_
    /\ ukw_' = EnigmaMachine.ukw_
    /\ op' = "init"
    /\ idx' = {}
    /\ cin' = cout
    /\ cout' = <<>>
    /\ keydowns' = 0
    /\ calls' = <<>>
    /\ run' = 2
    /\ UNCHANGED <<arg, ret, crashed, pc, input, c, good>>

NextRoundTrip ==
    \/ RoundTripStep
    \/ RoundTripAgain

SpecRoundTrip == InitRoundTrip /\ [][NextRoundTrip]_vars

---------------------------------------------------------------------------
(* Properties.                                                             *)

\* Every Rotor the machine holds: the entry wheel, the reflector and the
\* rotors of the stack.
AllRotors == {etw_, ukw_} \cup {rotors_[k] : k \in 1..Len(rotors_)}

\* The indices of the alphabet.
Indices == 0..(Len(ALPHA) - 1)

\* C1 (reciprocity): at the rotor positions of every reachable state, and
\* for every character ch in 'A'..'Z', two calls of cipher_one with no
\* keydown between them give ch back: cipher_one(cipher_one(ch)) = ch.
C1_Reciprocity ==
    \A ch \in ValidChars :
        cipher_one(this, cipher_one(this, ch).ret).ret = ch

\* C2 (rotor round trip): for every rotor of the machine, at the position
\* it is in, and every index x, connect_bck(connect_fwd(x)) = x.
C2_RotorRoundTrip ==
    \A r \in AllRotors :
        \A x \in Indices : connect_bck(r, connect_fwd(r, x)) = x

\* C3 (the fast rotor always steps by exactly one): every keydown takes the
\* first rotor from its position p to (p - 1) mod 26, p = 0 included.
C3_FastRotorStepsByOne ==
    [][KeyDown => rotors_'[1].pos_ = (rotors_[1].pos_ - 1) % 26]_vars

\* C4 (end-to-end round trip): when a string has been enciphered on a fresh
\* machine and the ciphertext has been enciphered on a second fresh
\* machine, the text produced is the string.
C4_RoundTrip ==
    (run = 2 /\ cin = <<>>) => cout = input

\* C5 (one output per input, clean end of input): when main has left its
\* loop, cipher_one has been called exactly once per character of the
\* input stream, the k-th call on the k-th character, and not for the
\* failed read that found the end of the stream.
C5_OneCallPerInput ==
    pc = "done" => calls = input

\* C6 (exactly one step per keystroke, before ciphering): immediately
\* before the k-th call of cipher_one in main, keydown has been called
\* exactly k times since the machine was constructed.
C6_OneKeydownPerCall ==
    pc = "cipher" => keydowns = Len(calls) + 1

\* C7 (reflector involution): the reflector, at its fixed position 0, maps
\* no index to itself and maps every index back when applied twice.
C7_ReflectorInvolution ==
    /\ ukw_.pos_ = 0
    /\ \A x \in Indices :
        /\ connect_fwd(ukw_, x) # x
        /\ connect_fwd(ukw_, connect_fwd(ukw_, x)) = x

\* C7 witness: a cipher_one call, which sends the signal through the
\* reflector, has been made after the rotor stack has stepped.
C7_Witness ==
    /\ op = "cipher_one"
    /\ rotors_[1].pos_ # 0
    /\ ukw_.pos_ = 0

\* Whether f is a bijection of the indices 0..25.
IsPermutation(f) ==
    /\ DOMAIN f = Indices
    /\ \A k \in Indices : f[k] \in Indices
    /\ \A j, k \in Indices : f[j] = f[k] => j = k

\* C8 (permutation invariant): in every reachable state, every rotor's
\* shuffle_fwd_ is a bijection of 0..25 and its shuffle_bck_ is the exact
\* inverse: shuffle_bck_[shuffle_fwd_[k]] = k for every k.
C8_PermutationInvariant ==
    \A r \in AllRotors :
        /\ IsPermutation(r.shuffle_fwd_)
        /\ DOMAIN r.shuffle_bck_ = Indices
        /\ \A k \in Indices : r.shuffle_bck_[r.shuffle_fwd_[k]] = k

\* C8 witness: the tables have been through a keydown that wrapped the
\* first rotor and through a cipher_one call.
C8_Witness ==
    /\ op = "cipher_one"
    /\ rotors_[1].pos_ = 1
    /\ arg = 90

\* C9 (bounds safety): after any sequence of keydown and cipher_one calls
\* on characters 'A'..'Z', every rotor position is in 0..25 and every
\* subscript the last call used on plugboard_, shuffle_fwd_, shuffle_bck_
\* or notches_ is inside its vector.
C9_BoundsSafety ==
    /\ \A r \in AllRotors : r.pos_ \in 0..(r.len_ - 1)
    /\ ~OutOfRange(idx)

\* C9 witness: a keydown from position 0, where the unsigned subtraction
\* wraps, has just read notches_[pos_].
C9_Witness ==
    /\ op = "keydown"
    /\ rotors_[1].pos_ = rotate_pos([rotors_[1] EXCEPT !.pos_ = 0], 1)
    /\ idx # {}

\* C10 (input error handling): a cipher_one call of main on a character of
\* the input stream that is outside 'A'..'Z' uses no out-of-range
\* subscript and does not end the run.
C10_InvalidCharRejected ==
    (/\ op = "cipher_one"
     /\ Len(calls) \in 1..Len(input)
     /\ arg = input[Len(calls)]
     /\ arg \notin ValidChars)
        => (~OutOfRange(idx) /\ ~crashed)

---------------------------------------------------------------------------
(* One Rotor, constructed from a wiring string and then used through its   *)
(* member functions.  The wiring is held in input, the rotor in rotors_.   *)

\* rotors::i with its last letter mistyped, so that 'C' occurs twice and
\* 'J' not at all: "EKMFLGDQVZNTOWYHXUSPAIBRCC"
wiring_duplicate ==
    <<69, 75, 77, 70, 76, 71, 68, 81, 86, 90, 78, 84, 79,
      87, 89, 72, 88, 85, 83, 80, 65, 73, 66, 82, 67, 67>>

\* A wiring of 25 letters: "ABCDEFGHIJKLMNOPQRSTUVWXY"
wiring_short == SubSeq(rotors_etw_alpha, 1, 25)

\* The wiring strings a Rotor is constructed from.
Wirings ==
    {rotors_etw_alpha, rotors_i, rotors_ukw_b, wiring_duplicate, wiring_short}

\* Whether w is a permutation of the alphabet.
IsWiring(w) ==
    /\ Len(w) = Len(ALPHA)
    /\ {w[k] : k \in 1..Len(w)} = ValidChars

InitRotor ==
    /\ rotors_ = <<>>
    /\ plugboard_ = EnigmaMachine.plugboard_
    /\ etw_ = EnigmaMachine.etw_
    /\ ukw_ = EnigmaMachine.ukw_
    /\ op = "init"
    /\ arg = 0
    /\ ret = 0
    /\ idx = {}
    /\ crashed = FALSE
    /\ pc = "construct"
    /\ input \in Wirings
    /\ cin = <<>>
    /\ c = 0
    /\ good = TRUE
    /\ cout = <<>>
    /\ keydowns = 0
    /\ calls = <<>>
    /\ run = 0

\* Rotor(input, make_notches(26u, {'Z' - 'A'}), p)
RotorConstruct(p) ==
    /\ pc = "construct"
    /\ rotors_' = <<Rotor(input, make_notches(26, {90 - 65}), p, 0)>>
    /\ op' = "Rotor"
    /\ pc' = "built"
    /\ UNCHANGED <<plugboard_, etw_, ukw_, arg, ret, idx, crashed>>
    /\ UNCHANGED <<cin, input, c, good, cout, keydowns, calls, run>>

\* rotor.rotate(turnover)
RotorRotate(turnover) ==
    /\ pc = "built"
    /\ rotors_' = <<rotate(rotors_[1], turnover).rotor>>
    /\ ret' = rotate(rotors_[1], turnover).ret
    /\ arg' = turnover
    /\ idx' = {Sub(rotors_[1].notches_, rotate(rotors_[1], turnover).at)}
    /\ op' = "rotate"
    /\ UNCHANGED <<plugboard_, etw_, ukw_, crashed>>
    /\ UNCHANGED mainvars

\* rotor.connect_fwd(character)
RotorConnectFwd(character) ==
    /\ pc = "built"
    /\ ret' = connect_fwd(rotors_[1], character)
    /\ arg' = character
    /\ idx' = {Sub(rotors_[1].shuffle_fwd_, contact(rotors_[1], character))}
    /\ op' = "connect_fwd"
    /\ UNCHANGED <<machine, crashed>>
    /\ UNCHANGED mainvars

\* rotor.connect_bck(character)
RotorConnectBck(character) ==
    /\ pc = "built"
    /\ ret' = connect_bck(rotors_[1], character)
    /\ arg' = character
    /\ idx' = {Sub(rotors_[1].shuffle_bck_, contact(rotors_[1], character))}
    /\ op' = "connect_bck"
    /\ UNCHANGED <<machine, crashed>>
    /\ UNCHANGED mainvars

NextRotor ==
    \/ \E p \in Indices : RotorConstruct(p)
    \/ \E turnover \in {0, 1} : RotorRotate(turnover)
    \/ \E character \in Indices : RotorConnectFwd(character)
    \/ \E character \in Indices : RotorConnectBck(character)

SpecRotor == InitRotor /\ [][NextRotor]_vars

\* C11 (configuration error handling): no Rotor is ever built from a wiring
\* string whose length is not 26 or that is not a permutation of the
\* alphabet; a Rotor that has been built has a backward table that is the
\* inverse of its forward table.
C11_BadWiringRejected ==
    pc = "built" =>
        /\ IsWiring(input)
        /\ IsPermutation(rotors_[1].shuffle_fwd_)
        /\ \A k \in Indices :
            rotors_[1].shuffle_bck_[rotors_[1].shuffle_fwd_[k]] = k

---------------------------------------------------------------------------
(* A stack of three rotors with chosen notch sets and starting positions,  *)
(* stepped by keydown.                                                     *)

\* The notch sets a rotor of the stack is given.
NotchChoices == {{}, {14}, {25}}

\* The machine of EnigmaMachine() with its three rotors constructed as
\* Rotor(rotors::i, make_notches(26u, ns[k]), ps[k]).  The last rotor keeps
\* the notch set of the constructor: keydown discards what its rotate
\* returns.
InitStack ==
    /\ \E ns \in [1..(NumRotors - 1) -> NotchChoices] :
       \E ps \in [1..NumRotors -> Indices] :
           rotors_ = [k \in 1..NumRotors |->
                         Rotor(rotors_i,
                               make_notches(26, IF k < NumRotors
                                                THEN ns[k]
                                                ELSE {90 - 65}),
                               ps[k], 0)]
    /\ plugboard_ = EnigmaMachine.plugboard_
    /\ etw_ = EnigmaMachine.etw_
    /\ ukw_ = EnigmaMachine.ukw_
    /\ op = "init"
    /\ arg = 0
    /\ ret = 0
    /\ idx = {}
    /\ crashed = FALSE
    /\ pc = "api"
    /\ cin = <<>>
    /\ input = <<>>
    /\ c = 0
    /\ good = TRUE
    /\ cout = <<>>
    /\ keydowns = 0
    /\ calls = <<>>
    /\ run = 0

NextStack == KeyDown

SpecStack == InitStack /\ [][NextStack]_vars

\* Whether position p of rotor r is a notch position.
IsNotch(r, p) == r.notches_[p] = 1

C13_TurnsOnlyWithPrevious ==
    [][KeyDown =>
        \A k \in 2..NumRotors :
            rotors_'[k].pos_ # rotors_[k].pos_
                => rotors_'[k - 1].pos_ # rotors_[k - 1].pos_]_vars

----------------------------------------------------------------------------
(* Frame conditions of the two operations of the machine.                  *)

\* C14 (cipher_one is a pure read of machine state): a call of cipher_one
\* leaves the rotors with their positions, the entry wheel, the reflector
\* and the plugboard as they were, and the rotor stack changes only in a
\* call of keydown.
C14_CipherOnePure ==
    [][/\ op' = "cipher_one" => machine' = machine
       /\ rotors_' # rotors_ => op' = "keydown"]_vars

C14_Witness ==
    /\ op = "cipher_one"
    /\ rotors_[1].pos_ = 15
    /\ ret # arg

\* C15 (entry wheel and reflector never step): after any sequence of
\* keydown and cipher_one calls the entry wheel and the reflector are at
\* position 0 and the plugboard maps every index to itself.
C15_FixedWheels ==
    /\ etw_.pos_ = 0
    /\ ukw_.pos_ = 0
    /\ DOMAIN plugboard_ = Indices
    /\ \A k \in Indices : plugboard_[k] = k

C15_Witness ==
    /\ op = "cipher_one"
    /\ rotors_[1].pos_ = 14
    /\ etw_.pos_ = 0
    /\ ukw_.pos_ = 0

----------------------------------------------------------------------------
(* The machine of EnigmaMachine() under repeated key presses: a keydown    *)
(* that can be called is eventually called, as in main's loop, which calls *)
(* it once per pass (line 188).                                            *)

SpecFair == Init /\ [][Next]_vars /\ WF_vars(KeyDown)

\* C16 (the stepping cascade reaches the slower rotors): in the machine
\* built by EnigmaMachine(), repeated keydown calls eventually bring the
\* first rotor to its notch position 25 and eventually change the position
\* of the second rotor.
C16_CascadeReaches ==
    /\ <>(rotors_[1].pos_ = 25)
    /\ <>(rotors_[2].pos_ # 0)

----------------------------------------------------------------------------
(* The machine of EnigmaMachine() set to any tuple of rotor positions: the *)
(* three rotors constructed as Rotor(rotors::i, make_notches(26u,          *)
(* {'Z' - 'A'}), ps[k]).                                                   *)

\* The characters ciphered at each tuple: the two ends of the alphabet.
ProbeChars == {65, 90}

InitPositions ==
    /\ \E ps \in [1..NumRotors -> Indices] :
           rotors_ = [k \in 1..NumRotors |->
                         Rotor(rotors_i, make_notches(26, {90 - 65}), ps[k], 0)]
    /\ plugboard_ = EnigmaMachine.plugboard_
    /\ etw_ = EnigmaMachine.etw_
    /\ ukw_ = EnigmaMachine.ukw_
    /\ op = "init"
    /\ arg = 0
    /\ ret = 0
    /\ idx = {}
    /\ crashed = FALSE
    /\ pc = "api"
    /\ cin = <<>>
    /\ input = <<>>
    /\ c = 0
    /\ good = TRUE
    /\ cout = <<>>
    /\ keydowns = 0
    /\ calls = 0
    /\ run = 0

NextPositions == \E ch \in ProbeChars : CipherOne(ch)

SpecPositions == InitPositions /\ [][NextPositions]_vars

\* C17 (cipher_one is a permutation of the alphabet in every state): at
\* every tuple of rotor positions in 0..25, cipher_one on 'A'..'Z' uses no
\* out-of-range subscript, its results lie in 'A'..'Z', and distinct
\* characters give distinct results (the 26 characters have 26 results).
C17_CipherPermutation ==
    LET calls_ == {cipher_one(this, ch) : ch \in ValidChars}
        image  == {call.ret : call \in calls_}
    IN  /\ \A call \in calls_ : ~OutOfRange(call.idx)
        /\ image \subseteq ValidChars
        /\ Cardinality(image) = Cardinality(ValidChars)
        /\ op = "cipher_one" => ret \in ValidChars

C17_Witness ==
    /\ op = "cipher_one"
    /\ arg = 90
    /\ rotors_[1].pos_ = 25
    /\ rotors_[2].pos_ = 3
    /\ rotors_[3].pos_ = 17

----------------------------------------------------------------------------
(* The machine of EnigmaMachine() with every stack rotor at position 0.    *)

\* C18 (fixed-point-free involution at the all-zero position tuple): in the
\* machine built by EnigmaMachine(), whenever every rotor of the stack is
\* at position 0, cipher_one maps no character of 'A'..'Z' to itself and
\* maps the result of every character back to that character.
C18_InvolutionAtZero ==
    (\A k \in 1..Len(rotors_) : rotors_[k].pos_ = 0) =>
        \A ch \in ValidChars :
            LET out == cipher_one(this, ch).ret
            IN  /\ out \in ValidChars
                /\ out # ch
                /\ cipher_one(this, out).ret = ch

C18_Witness ==
    /\ op = "cipher_one"
    /\ \A k \in 1..Len(rotors_) : rotors_[k].pos_ = 0
    /\ arg = 65
    /\ ret = 74

===========================================================================
